---- MODULE Spec2Model ----
(***************************************************************************)
(* room-monitor-edge: the frame associator (app/tracking.py) and the slot  *)
(* registry with its processing cycle and HTTP handlers (app/main.py).     *)
(*                                                                         *)
(* Boxes are <<x1, y1, x2, y2>> with integer pixel coordinates.  Scores    *)
(* are kept exact: an IoU score is the pair inter / (union + 1e-6), a      *)
(* centre-distance score is 1 - sqrt(p / q); comparisons are done by       *)
(* cross-multiplication with the 1e-6 of the denominators treated as a     *)
(* positive quantity smaller than any difference of the integer terms.     *)
(***************************************************************************)
EXTENDS Integers, Sequences, FiniteSets, TLC

VARIABLES
    next_id,            \* CentroidTracker._next_id
    tracks,             \* CentroidTracker._tracks : id -> TrackState
    upd,                \* locals of the CentroidTracker.update call just made
    retired,            \* history: identities expired since the live set was last empty
    selected_tracks,    \* main.selected_tracks : track id -> slot
    slot_memory,        \* main.slot_memory : slot -> info
    latest_detections,  \* main.latest_detections
    clock,              \* what time.time() returns
    pc,                 \* position of inference_frame_generator
    loc,                \* locals of the running cycle
    reply,              \* the last HTTP response
    faults,             \* cycles ended by an exception since the last completed one
    lk                  \* the three locks and what each thread has left to do with them

trackerVars == <<next_id, tracks, upd, retired>>
registryVars == <<selected_tracks, slot_memory>>
cycleVars == <<latest_detections, clock, pc, loc>>
vars == <<next_id, tracks, upd, retired, selected_tracks, slot_memory, latest_detections,
          clock, pc, loc, reply, faults, lk>>

(***************************************************************************)
(* Bounds of the model.                                                    *)
(***************************************************************************)
MaxId == 3          \* identities the tracker alone hands out in one epoch
MaxCycleId == 2     \* identities handed out in one epoch of the processing cycle
MaxFaults == 1      \* consecutive cycles that may end in an exception
MaxLost == 2        \* CentroidTracker(max_lost = ...)
MaxClock == 1       \* the clock stops here
StableGrid == 4     \* the single box moves over (StableGrid + 1)^2 places
MaxSections == 1    \* critical sections one loop of a cycle runs through

(***************************************************************************)
(* Program constants.                                                      *)
(***************************************************************************)
MatchIouPct == 20       \* match_iou = 0.2
MatchCenterPct == 35    \* match_center_ratio = 0.35

\* Python's None, for a track id or a slot, a bbox, and a descriptor
NoId == 0
NoBox == << >>
NoDesc == << >>

Max2(a, b) == IF a >= b THEN a ELSE b
Min2(a, b) == IF a <= b THEN a ELSE b
Sq(a) == a * a

RECURSIVE SetToSortedSeq(_)
SetToSortedSeq(S) ==
    IF S = {} THEN <<>>
    ELSE LET m == CHOOSE x \in S : \A y \in S : x <= y
         IN <<m>> \o SetToSortedSeq(S \ {m})

(***************************************************************************)
(* tracking.py: _compute_iou.  The result is inter / (union + 1e-6), or    *)
(* 0.0 when the intersection is empty; kept as numerator and denominator.  *)
(***************************************************************************)
InterArea(a, b) ==
    LET x_a == Max2(a[1], b[1])
        y_a == Max2(a[2], b[2])
        x_b == Min2(a[3], b[3])
        y_b == Min2(a[4], b[4])
    IN Max2(0, x_b - x_a) * Max2(0, y_b - y_a)

BoxArea(a) == (a[3] - a[1]) * (a[4] - a[2])

\* [n, d]: the IoU is n / (d + 1e-6) when n > 0 and 0.0 when n = 0
ComputeIou(a, b) ==
    LET inter == InterArea(a, b)
    IN [n |-> inter, d |-> BoxArea(a) + BoxArea(b) - inter]

\* iou >= pct / 100, for an IoU of integer numerator and denominator:
\* n / (d + 1e-6) >= pct/100  <=>  100 n >= pct d + pct * 1e-6  <=>  100 n > pct d
IouAtLeast(iou, pct) == iou.n > 0 /\ 100 * iou.n > pct * iou.d

(***************************************************************************)
(* tracking.py: _center_distance_ratio.  The ratio is sqrt(p / q) with     *)
(* p = 4 dist^2 and q = 4 diag_ref^2.                                      *)
(***************************************************************************)
CenterDistanceRatio(a, b) ==
    LET aw == Max2(1, a[3] - a[1])
        ah == Max2(1, a[4] - a[2])
        bw == Max2(1, b[3] - b[1])
        bh == Max2(1, b[4] - b[2])
        diag2 == Max2(Max2(Sq(aw) + Sq(ah), Sq(bw) + Sq(bh)), 1)
    IN [p |-> Sq((a[1] + a[3]) - (b[1] + b[3])) + Sq((a[2] + a[4]) - (b[2] + b[4])),
        q |-> 4 * diag2]

\* ratio <= pct / 100
RatioAtMost(r, pct) == 10000 * r.p <= Sq(pct) * r.q

(***************************************************************************)
(* Scores of the matrix: -1.0, an IoU, or 1 - ratio.                       *)
(***************************************************************************)
NoScore == [kind |-> "none"]
IouScore(iou) == [kind |-> "iou", n |-> iou.n, d |-> iou.d]
DistScore(r) == [kind |-> "dist", p |-> r.p, q |-> r.q]

\* s >= 0 (every IoU and every 1 - ratio with ratio <= 0.35 is)
ScoreNonNeg(s) == s.kind # "none"

\* s1 > s2, as the floats compare
ScoreGreater(s1, s2) ==
    CASE s1.kind = "none" -> FALSE
      [] s2.kind = "none" -> TRUE
      [] s1.kind = "iou" /\ s2.kind = "iou" ->
            \/ s1.n * s2.d > s2.n * s1.d
            \/ s1.n * s2.d = s2.n * s1.d /\ s1.n > s2.n
      [] s1.kind = "dist" /\ s2.kind = "dist" ->
            \* 1 - sqrt(p1/q1) > 1 - sqrt(p2/q2)
            s1.p * s2.q < s2.p * s1.q
      [] s1.kind = "iou" /\ s2.kind = "dist" ->
            \* n/d > 1 - sqrt(p/q)  <=>  p d^2 > q (d - n)^2
            \/ s2.p * Sq(s1.d) > s2.q * Sq(s1.d - s1.n)
            \/ /\ s2.p * Sq(s1.d) = s2.q * Sq(s1.d - s1.n)
               /\ s2.p * s1.d > s2.q * (s1.d - s1.n)
      [] s1.kind = "dist" /\ s2.kind = "iou" ->
            \/ s1.p * Sq(s2.d) < s1.q * Sq(s2.d - s2.n)
            \/ /\ s1.p * Sq(s2.d) = s1.q * Sq(s2.d - s2.n)
               /\ s1.p * s2.d < s1.q * (s2.d - s2.n)

\* a variant that accepts a pair only at an IoU of 0.5
PairScoreIouHalf(track_bbox, det_bbox) ==
    LET iou == ComputeIou(track_bbox, det_bbox)
    IN IF IouAtLeast(iou, 50) THEN IouScore(iou) ELSE NoScore

\* tracking.py 96-105: the score of one (track, detection) pair
PairScore(track_bbox, det_bbox) ==
    LET iou == ComputeIou(track_bbox, det_bbox)
        ratio == CenterDistanceRatio(track_bbox, det_bbox)
    IN IF IouAtLeast(iou, MatchIouPct) THEN IouScore(iou)
       ELSE IF RatioAtMost(ratio, MatchCenterPct) THEN DistScore(ratio)
       ELSE NoScore

\* a variant that takes the first eligible cell instead of the largest
ArgMaxFirst(M, nT, nD) ==
    LET cells == {<<i, j>> : i \in 1..nT, j \in 1..nD}
        Before(c1, c2) == c1[1] < c2[1] \/ (c1[1] = c2[1] /\ c1[2] < c2[2])
        good == {c \in cells : ScoreNonNeg(M[c])}
    IN IF good = {} THEN <<1, 1>>
       ELSE CHOOSE c \in good : \A o \in good : o = c \/ Before(c, o)

(***************************************************************************)
(* tracking.py 107-122: the greedy loop.  M maps <<t_idx, d_idx>> to a     *)
(* score; np.argmax returns the first maximum in row-major order.          *)
(***************************************************************************)
ArgMax(M, nT, nD) ==
    LET cells == {<<i, j>> : i \in 1..nT, j \in 1..nD}
        Before(c1, c2) == c1[1] < c2[1] \/ (c1[1] = c2[1] /\ c1[2] < c2[2])
    IN CHOOSE c \in cells :
          \A o \in cells :
             /\ ~ScoreGreater(M[o], M[c])
             /\ (Before(o, c) => ScoreGreater(M[c], M[o]))

RECURSIVE GreedyLoop(_, _, _, _, _, _)
GreedyLoop(M, nT, nD, track_ids, matches, matched_dets) ==
    IF nT = 0 \/ nD = 0 THEN matches
    ELSE LET c == ArgMax(M, nT, nD)
         IN IF ~ScoreNonNeg(M[c]) THEN matches
            ELSE IF c[2] \in matched_dets
            THEN GreedyLoop([x \in DOMAIN M |-> IF x[2] = c[2] THEN NoScore ELSE M[x]],
                            nT, nD, track_ids, matches, matched_dets)
            ELSE GreedyLoop([x \in DOMAIN M |->
                                IF x[1] = c[1] \/ x[2] = c[2] THEN NoScore ELSE M[x]],
                            nT, nD, track_ids,
                            Append(matches, <<track_ids[c[1]], c[2]>>),
                            matched_dets \cup {c[2]})

\* tracking.py 82-122: matches of one update on a non-empty track table
Matches(trk, detections) ==
    LET track_ids == SetToSortedSeq(DOMAIN trk)
        nT == Len(track_ids)
        nD == Len(detections)
        M == [c \in {<<i, j>> : i \in 1..nT, j \in 1..nD} |->
                 PairScore(trk[track_ids[c[1]]].bbox, detections[c[2]].bbox)]
    IN GreedyLoop(M, nT, nD, track_ids, <<>>, {})

(***************************************************************************)
(* tracking.py 63-72: _register, applied to a list of detections in order. *)
(***************************************************************************)
TrackState(det) == [bbox |-> det.bbox, cls |-> det.cls, conf |-> det.conf, lost |-> 0]

RECURSIVE RegisterAll(_, _, _)
RegisterAll(trk, nid, dets) ==
    IF dets = <<>> THEN [tracks |-> trk, next_id |-> nid, ids |-> <<>>]
    ELSE LET one == [t \in DOMAIN trk \cup {nid} |->
                        IF t = nid THEN TrackState(Head(dets)) ELSE trk[t]]
             rest == RegisterAll(one, nid + 1, Tail(dets))
         IN [rest EXCEPT !.ids = <<nid>> \o @]

\* tracking.py 131: the detections left unmatched, in their order
RemainingDets(detections, matched_dets) ==
    LET F[i \in 0..Len(detections)] ==
            IF i = 0 THEN <<>>
            ELSE IF i \notin matched_dets THEN Append(F[i - 1], detections[i])
            ELSE F[i - 1]
    IN F[Len(detections)]

\* a variant that expires one call early
ExpiredOff(lost) == lost >= MaxLost
\* tracking.py 137: the expiry test
Expired(lost) == lost > MaxLost

\* a variant that never resets the counter
ResetNever(trk, nid) == nid
\* variants that reset the counter after every call, and with one track left
ResetAlways(trk, nid) == 1
ResetWhenOne(trk, nid) == IF Cardinality(DOMAIN trk) <= 1 THEN 1 ELSE nid
\* tracking.py 140-141: the counter after the pass
ResetCounter(trk, nid) == IF DOMAIN trk = {} THEN 1 ELSE nid

\* tracking.py 124-125: the index of the detection matched to track t
MatchedDet(matches, t) == matches[CHOOSE i \in DOMAIN matches : matches[i][1] = t][2]

(***************************************************************************)
(* tracking.py 74-143: CentroidTracker.update as a function of the tracker *)
(* state and the detection list.                                           *)
(***************************************************************************)
UpdateResult(trk, nid, detections) ==
    IF DOMAIN trk = {}
    THEN LET r == RegisterAll(trk, nid, detections)
         IN [tracks |-> r.tracks, next_id |-> r.next_id,
             matches |-> <<>>, registered |-> r.ids, expired |-> {}]
    ELSE
    LET matches == IF detections = <<>> THEN <<>> ELSE Matches(trk, detections)
        matched_tids == {matches[i][1] : i \in DOMAIN matches}
        matched_dets == {matches[i][2] : i \in DOMAIN matches}
        unmatched_tracks == DOMAIN trk \ matched_tids
        DetOf(t) == detections[MatchedDet(matches, t)]
        bound == [t \in DOMAIN trk |->
                     IF t \in matched_tids
                     THEN [bbox |-> DetOf(t).bbox, cls |-> DetOf(t).cls,
                           conf |-> DetOf(t).conf, lost |-> 0]
                     ELSE trk[t]]
        remaining == RemainingDets(detections, matched_dets)
        reg == RegisterAll(bound, nid, remaining)
        aged == [t \in DOMAIN reg.tracks |->
                    IF t \in unmatched_tracks
                    THEN [reg.tracks[t] EXCEPT !.lost = @ + 1]
                    ELSE reg.tracks[t]]
        gone == {t \in unmatched_tracks : Expired(aged[t].lost)}
        kept == [t \in DOMAIN aged \ gone |-> aged[t]]
    IN [tracks |-> kept, next_id |-> ResetCounter(kept, reg.next_id),
        matches |-> matches, registered |-> reg.ids, expired |-> gone]

(***************************************************************************)
(* main.py: slot_memory is a dict slot -> info, info being the dict        *)
(* [track_id, bbox, descriptor, last_seen].  The insertion order of the    *)
(* dict is not kept: the one place that iterates it unsorted (main.py 290) *)
(* uses the order only to break ties between equal scores, and there every *)
(* tied slot is allowed (BestSlots).                                       *)
(***************************************************************************)
MAX_TARGETS == 4

MemSlots(mem) == DOMAIN mem
\* slot_memory.get(slot)
MemHas(mem, slot) == slot \in DOMAIN mem
MemGet(mem, slot) == mem[slot]
\* slot_memory.pop(slot, None)
MemPop(mem, slot) == [s \in DOMAIN mem \ {slot} |-> mem[s]]
\* slot_memory[slot] = info
MemSet(mem, slot, info) == [s \in DOMAIN mem \cup {slot} |-> IF s = slot THEN info ELSE mem[s]]

\* selected_tracks.pop(tid) and selected_tracks[tid] = slot
SelPop(sel, tid) == [t \in DOMAIN sel \ {tid} |-> sel[t]]
SelSet(sel, tid, slot) == [t \in DOMAIN sel \cup {tid} |-> IF t = tid THEN slot ELSE sel[t]]

Lowest(S) == CHOOSE x \in S : \A y \in S : x <= y

\* variants that hand out a slot beyond MAX_TARGETS, and none beyond
\* MAX_TARGETS - 1
NextAvailableSlotNoLimit(mem) ==
    LET inactive == {s \in MemSlots(mem) : MemGet(mem, s).track_id = NoId}
        unused == (1..(MAX_TARGETS + 1)) \ MemSlots(mem)
    IN IF inactive # {} THEN Lowest(inactive) ELSE Lowest(unused)

NextAvailableSlotThree(mem) ==
    LET inactive == {s \in MemSlots(mem) : MemGet(mem, s).track_id = NoId}
        unused == (1..(MAX_TARGETS - 1)) \ MemSlots(mem)
    IN IF inactive # {} THEN Lowest(inactive)
       ELSE IF unused # {} THEN Lowest(unused)
       ELSE NoId

\* main.py 162-170
NextAvailableSlot(mem) ==
    LET inactive == {s \in MemSlots(mem) : MemGet(mem, s).track_id = NoId}
        unused == (1..MAX_TARGETS) \ MemSlots(mem)
    IN IF inactive # {} THEN Lowest(inactive)
       ELSE IF unused # {} THEN Lowest(unused)
       ELSE NoId

\* main.py 190-208: _toggle_track on the registry (sel, mem) at time now
ToggleTrack(sel, mem, track_id, now) ==
    IF track_id \in DOMAIN sel
    THEN [sel |-> SelPop(sel, track_id), mem |-> MemPop(mem, sel[track_id]),
          status |-> "removed", slot |-> sel[track_id]]
    ELSE LET slot == NextAvailableSlot(mem)
         IN IF slot = NoId
            THEN [sel |-> sel, mem |-> mem, status |-> "full", slot |-> NoId]
            ELSE [sel |-> SelSet(sel, track_id, slot),
                  mem |-> MemSet(mem, slot,
                                 [track_id |-> track_id, bbox |-> NoBox,
                                  descriptor |-> NoDesc, last_seen |-> now]),
                  status |-> "added", slot |-> slot]

\* a variant that forgets the binding map
DeleteSlotKeepBinding(sel, mem, slot_id) ==
    IF ~(1 <= slot_id /\ slot_id <= MAX_TARGETS)
    THEN [sel |-> sel, mem |-> mem, status |-> "404 slot not found", track_id |-> NoId]
    ELSE IF ~MemHas(mem, slot_id)
    THEN [sel |-> sel, mem |-> mem, status |-> "404 slot not assigned", track_id |-> NoId]
    ELSE [sel |-> sel, mem |-> MemPop(mem, slot_id),
          status |-> "removed", track_id |-> MemGet(mem, slot_id).track_id]

\* main.py 568-587: delete_target
DeleteSlot(sel, mem, slot_id) ==
    IF ~(1 <= slot_id /\ slot_id <= MAX_TARGETS)
    THEN [sel |-> sel, mem |-> mem, status |-> "404 slot not found", track_id |-> NoId]
    ELSE IF ~MemHas(mem, slot_id)
    THEN [sel |-> sel, mem |-> mem, status |-> "404 slot not assigned", track_id |-> NoId]
    ELSE LET info == MemGet(mem, slot_id)
         IN [sel |-> IF info.track_id # NoId THEN SelPop(sel, info.track_id) ELSE sel,
             mem |-> MemPop(mem, slot_id),
             status |-> "removed", track_id |-> info.track_id]

\* a variant that drops the remembered box of a slot it unbinds
PruneSelectedForget(sel, mem, active_set) ==
    LET lost_tids == {t \in DOMAIN sel : t \notin active_set}
        lost_slots == {sel[t] : t \in lost_tids}
    IN [sel |-> [t \in DOMAIN sel \ lost_tids |-> sel[t]],
        mem |-> [s \in DOMAIN mem |->
                    IF s \in lost_slots
                    THEN [mem[s] EXCEPT !.track_id = NoId, !.bbox = NoBox]
                    ELSE mem[s]]]

\* main.py 146-159: _prune_selected
PruneSelected(sel, mem, active_set) ==
    LET lost_tids == {t \in DOMAIN sel : t \notin active_set}
        lost_slots == {sel[t] : t \in lost_tids}
    IN [sel |-> [t \in DOMAIN sel \ lost_tids |-> sel[t]],
        mem |-> [s \in DOMAIN mem |->
                    IF s \in lost_slots THEN [mem[s] EXCEPT !.track_id = NoId] ELSE mem[s]]]

\* main.py 129-143: _selected_snapshot
SelectedSnapshot(sel, mem) ==
    LET slots == SetToSortedSeq(MemSlots(mem))
    IN [k \in DOMAIN slots |->
           LET info == MemGet(mem, slots[k])
           IN [track_id |-> info.track_id, slot |-> slots[k],
               active |-> info.track_id \in DOMAIN sel, last_seen |-> info.last_seen]]

\* main.py 390-394: selected_map; a later item overwrites an earlier one
SelectedMap(snapshot) ==
    LET tids == {snapshot[k].track_id : k \in DOMAIN snapshot} \ {NoId}
    IN [t \in tids |->
           snapshot[CHOOSE k \in DOMAIN snapshot :
                       /\ snapshot[k].track_id = t
                       /\ \A j \in DOMAIN snapshot : snapshot[j].track_id = t => j <= k].slot]

(***************************************************************************)
(* main.py 211-241: _bbox_iou and _bbox_center_ratio, as [n, d] and [p, q] *)
(* like their tracking.py twins.                                           *)
(***************************************************************************)
BboxIou(a, b) ==
    LET iw == Max2(0, Min2(a[3], b[3]) - Max2(a[1], b[1]))
        ih == Max2(0, Min2(a[4], b[4]) - Max2(a[2], b[2]))
        inter == iw * ih
        area_a == Max2(0, a[3] - a[1]) * Max2(0, a[4] - a[2])
        area_b == Max2(0, b[3] - b[1]) * Max2(0, b[4] - b[2])
    IN [n |-> inter, d |-> area_a + area_b - inter]

BboxCenterRatio(a, b) ==
    LET aw == Max2(1, a[3] - a[1])
        ah == Max2(1, a[4] - a[2])
        bw == Max2(1, b[3] - b[1])
        bh == Max2(1, b[4] - b[2])
        diag2 == Max2(Max2(Sq(aw) + Sq(ah), Sq(bw) + Sq(bh)), 1)
    IN [p |-> Sq((a[1] + a[3]) - (b[1] + b[3])) + Sq((a[2] + a[4]) - (b[2] + b[4])),
        q |-> 4 * diag2]

(***************************************************************************)
(* main.py 244-268.  A frame is [shape, dets, pix]: pix gives the          *)
(* normalised histogram of a region of the image, a vector of integers     *)
(* read up to its own length (all histograms of the model have the same    *)
(* length).                                                                *)
(***************************************************************************)
ExtractDescriptor(frame, bbox) ==
    LET x1 == Max2(0, bbox[1])
        y1 == Max2(0, bbox[2])
        x2 == Min2(frame.shape.width, bbox[3])
        y2 == Min2(frame.shape.height, bbox[4])
    IN IF x2 <= x1 \/ y2 <= y1 THEN NoDesc ELSE frame.pix[<<x1, y1, x2, y2>>]

RECURSIVE SumSq(_)
SumSq(v) == IF v = <<>> THEN 0 ELSE Sq(Head(v)) + SumSq(Tail(v))

\* the distance is sqrt(p / q); 1.0 when a descriptor is missing
DescriptorDistance(a, b) ==
    IF a = NoDesc \/ b = NoDesc \/ Len(a) # Len(b) THEN [p |-> 1, q |-> 1]
    ELSE [p |-> SumSq([i \in DOMAIN a |-> a[i] - b[i]]), q |-> SumSq(a)]

SlotRecallIouPct == 30          \* SLOT_RECALL_IOU = 0.3
SlotRecallCenterPct == 35       \* SLOT_RECALL_CENTER = 0.35
SlotRecallDescriptorPct == 60   \* SLOT_RECALL_DESCRIPTOR = 0.6

(***************************************************************************)
(* main.py 283-311: the slot an unbound track would recall, from the       *)
(* snapshot inactive_slots.                                                *)
(***************************************************************************)
\* a variant that falls back to the geometric score when the descriptors are
\* further apart than the threshold
RecallScoreFallback(obj, descriptor, info) ==
    IF /\ descriptor # NoDesc
       /\ info.descriptor # NoDesc
       /\ RatioAtMost(DescriptorDistance(descriptor, info.descriptor),
                      SlotRecallDescriptorPct)
    THEN DistScore(DescriptorDistance(descriptor, info.descriptor))
    ELSE IF info.bbox = NoBox THEN NoScore
    ELSE LET iou == BboxIou(obj.bbox, info.bbox)
             center_ratio == BboxCenterRatio(obj.bbox, info.bbox)
         IN IF IouAtLeast(iou, SlotRecallIouPct) THEN IouScore(iou)
            ELSE IF RatioAtMost(center_ratio, SlotRecallCenterPct)
            THEN DistScore(center_ratio)
            ELSE NoScore

\* a variant that accepts a slot by appearance only at a distance of 0.2
RecallScoreNarrow(obj, descriptor, info) ==
    IF descriptor # NoDesc /\ info.descriptor # NoDesc
    THEN LET dist == DescriptorDistance(descriptor, info.descriptor)
         IN IF RatioAtMost(dist, 20) THEN DistScore(dist) ELSE NoScore
    ELSE IF info.bbox = NoBox THEN NoScore
    ELSE LET iou == BboxIou(obj.bbox, info.bbox)
             center_ratio == BboxCenterRatio(obj.bbox, info.bbox)
         IN IF IouAtLeast(iou, SlotRecallIouPct) THEN IouScore(iou)
            ELSE IF RatioAtMost(center_ratio, SlotRecallCenterPct)
            THEN DistScore(center_ratio)
            ELSE NoScore

RecallScore(obj, descriptor, info) ==
    IF descriptor # NoDesc /\ info.descriptor # NoDesc
    THEN LET dist == DescriptorDistance(descriptor, info.descriptor)
         IN IF RatioAtMost(dist, SlotRecallDescriptorPct) THEN DistScore(dist) ELSE NoScore
    ELSE IF info.bbox = NoBox THEN NoScore
    ELSE LET iou == BboxIou(obj.bbox, info.bbox)
             center_ratio == BboxCenterRatio(obj.bbox, info.bbox)
         IN IF IouAtLeast(iou, SlotRecallIouPct) THEN IouScore(iou)
            ELSE IF RatioAtMost(center_ratio, SlotRecallCenterPct)
            THEN DistScore(center_ratio)
            ELSE NoScore

\* the slots best_slot can be: those of the highest score above -1.0 (the
\* first of them in iteration order is taken); empty when best_slot is None
BestSlots(obj, descriptor, inactive_slots) ==
    LET Score(k) == RecallScore(obj, descriptor, inactive_slots[k])
        good == {k \in DOMAIN inactive_slots : ScoreNonNeg(Score(k))}
    IN {k \in good : \A j \in good : ~ScoreGreater(Score(j), Score(k))}

\* a variant without the test that best_slot is still unbound
RebindNoRecheck(sel, mem, obj, descriptor, best_slot, now) ==
    IF ~MemHas(mem, best_slot)
    THEN [sel |-> sel, mem |-> mem, bound |-> FALSE]
    ELSE [sel |-> SelSet(sel, obj.id, best_slot),
          mem |-> MemSet(mem, best_slot,
                         [MemGet(mem, best_slot) EXCEPT
                             !.track_id = obj.id, !.bbox = obj.bbox, !.last_seen = now,
                             !.descriptor = IF descriptor # NoDesc THEN descriptor ELSE @]),
          bound |-> TRUE]

\* main.py 313-324: the locked rebinding of best_slot to the track
Rebind(sel, mem, obj, descriptor, best_slot, now) ==
    IF ~MemHas(mem, best_slot) \/ MemGet(mem, best_slot).track_id # NoId
    THEN [sel |-> sel, mem |-> mem, bound |-> FALSE]
    ELSE [sel |-> SelSet(sel, obj.id, best_slot),
          mem |-> MemSet(mem, best_slot,
                         [MemGet(mem, best_slot) EXCEPT
                             !.track_id = obj.id, !.bbox = obj.bbox, !.last_seen = now,
                             !.descriptor = IF descriptor # NoDesc THEN descriptor ELSE @]),
          bound |-> TRUE]

\* main.py 419-431: the memory refresh of one selected object
RefreshSlot(mem, slot, obj, descriptor, now) ==
    LET old == IF MemHas(mem, slot) THEN MemGet(mem, slot)
               ELSE [track_id |-> NoId, bbox |-> NoBox, descriptor |-> NoDesc,
                     last_seen |-> now]
    IN MemSet(mem, slot,
              [old EXCEPT !.track_id = obj.id, !.bbox = obj.bbox, !.last_seen = now,
                          !.descriptor = IF descriptor # NoDesc THEN descriptor ELSE @])

\* main.py 143 and 148: _build_object for every live track, in dict order
TrackedObjects(trk) ==
    LET ids == SetToSortedSeq(DOMAIN trk)
    IN [k \in DOMAIN ids |->
           [id |-> ids[k], bbox |-> trk[ids[k]].bbox, cls |-> trk[ids[k]].cls,
            conf |-> trk[ids[k]].conf]]

\* main.py 395-441: objects_payload
ObjectsPayload(tracked_objects, selected_map) ==
    [k \in DOMAIN tracked_objects |->
        LET obj == tracked_objects[k]
            slot == IF obj.id \in DOMAIN selected_map THEN selected_map[obj.id] ELSE NoId
        IN [id |-> obj.id, bbox |-> obj.bbox, cls |-> obj.cls, conf |-> obj.conf,
            selected |-> slot # NoId, slot |-> slot]]

\* a variant that answers the first track under the point
FindTrackByPointFirst(norm_x, norm_y, snapshot) ==
    LET width == IF snapshot.width = 0 THEN 1 ELSE snapshot.width
        height == IF snapshot.height = 0 THEN 1 ELSE snapshot.height
        objs == snapshot.objects
        Inside(k) ==
            /\ objs[k].bbox[1] * norm_x.d <= norm_x.n * width
            /\ norm_x.n * width <= objs[k].bbox[3] * norm_x.d
            /\ objs[k].bbox[2] * norm_y.d <= norm_y.n * height
            /\ norm_y.n * height <= objs[k].bbox[4] * norm_y.d
        hits == {k \in DOMAIN objs : Inside(k)}
    IN IF hits = {} THEN NoId ELSE objs[Lowest(hits)].id

(***************************************************************************)
(* main.py 173-187: _find_track_by_point.  A coordinate is the fraction    *)
(* [n, d]; the pixel n * width / d is compared by cross-multiplication.    *)
(***************************************************************************)
FindTrackByPoint(norm_x, norm_y, snapshot) ==
    LET width == IF snapshot.width = 0 THEN 1 ELSE snapshot.width
        height == IF snapshot.height = 0 THEN 1 ELSE snapshot.height
        objs == snapshot.objects
        Inside(k) ==
            /\ objs[k].bbox[1] * norm_x.d <= norm_x.n * width
            /\ norm_x.n * width <= objs[k].bbox[3] * norm_x.d
            /\ objs[k].bbox[2] * norm_y.d <= norm_y.n * height
            /\ norm_y.n * height <= objs[k].bbox[4] * norm_y.d
        hits == {k \in DOMAIN objs : Inside(k)}
    IN IF hits = {} THEN NoId
       ELSE objs[CHOOSE k \in hits :
                    \A j \in hits : /\ objs[j].conf <= objs[k].conf
                                    /\ (j < k => objs[j].conf < objs[k].conf)].id

NoUpdate == [matches |-> <<>>, registered |-> <<>>, expired |-> {}, n |-> 0]

\* the call tracker.update(detections); identities stay within 1..cap
TrackerUpdate(detections, cap) ==
    \E r \in {UpdateResult(tracks, next_id, detections)} :
       /\ \A i \in DOMAIN r.registered : r.registered[i] <= cap
       /\ tracks' = r.tracks
       /\ next_id' = r.next_id
       /\ upd' = [matches |-> r.matches, registered |-> r.registered,
                  expired |-> r.expired, n |-> Len(detections)]
       /\ retired' = IF DOMAIN r.tracks = {} THEN {} ELSE retired \cup r.expired

(***************************************************************************)
(* Inputs: detections, frames and requests.                                *)
(***************************************************************************)
Det(b, c) == [bbox |-> b, cls |-> 0, conf |-> c]

TrackerBoxes == {<<0, 0, 4, 4>>, <<1, 0, 5, 4>>, <<3, 0, 7, 4>>, <<1, 1, 2, 2>>,
                 <<20, 0, 24, 4>>}

TrackerFrames ==
    {<<>>} \cup {<<Det(b, 9)>> : b \in TrackerBoxes}
           \cup {<<Det(<<1, 0, 5, 4>>, 9), Det(<<1, 1, 2, 2>>, 8)>>,
                 <<Det(<<0, 0, 4, 4>>, 9), Det(<<20, 0, 24, 4>>, 8)>>,
                 <<Det(<<3, 0, 7, 4>>, 9), Det(<<0, 0, 4, 4>>, 8)>>}

\* five places of a 48 x 8 image, far enough apart never to match each other
P1 == <<0, 0, 4, 4>>
P2 == <<10, 0, 14, 4>>
P3 == <<20, 0, 24, 4>>
P4 == <<30, 0, 34, 4>>
P5 == <<40, 0, 44, 4>>
Places == {P1, P2, P3, P4, P5}
Shape == [width |-> 48, height |-> 8]

\* histograms, each of norm 5 as cv2.normalize leaves each of norm 1
\* one histogram per place, pairwise beyond the recall distance
Own(b) == [i \in 1..5 |-> IF b[1] = 10 * (i - 1) THEN 5 ELSE 0]
\* Red and Rose are within the recall distance of each other: two people
\* dressed alike stand at P1 and P2
Red == <<4, 3, 0, 0, 0>>
Rose == <<3, 4, 0, 0, 0>>
Alike(b) == IF b[1] = 0 THEN Red ELSE IF b[1] = 10 THEN Rose ELSE Own(b)

Frame(dets, pix) == [shape |-> Shape, dets |-> dets, pix |-> pix]

Frames ==
    { Frame(<<>>, [b \in Places |-> Alike(b)]),
      Frame(<<Det(P1, 9)>>, [b \in Places |-> Alike(b)]),
      Frame(<<Det(P1, 9), Det(P2, 8)>>, [b \in Places |-> Alike(b)]) }

FullFrames ==
    { Frame(<<>>, [b \in Places |-> Own(b)]),
      Frame(<<Det(P1, 9), Det(P2, 8), Det(P3, 7), Det(P4, 6), Det(P5, 5)>>,
            [b \in Places |-> Own(b)]) }

\* Q1 is half a step to the right of P1: whoever stands there is dressed like
\* the person of P1 (Rose) or otherwise (Gold).  Thin is a sliver of a box at
\* the centre of P2, too narrow to hold a pixel.
Q1 == <<1, 0, 5, 4>>
Thin == <<12, 0, 12, 4>>
Gold == <<0, 0, 3, 4, 0>>
RecallPix(q) == [b \in {P1, P2, Q1} |-> IF b = P1 THEN Red ELSE IF b = P2 THEN Rose ELSE q]

RecallFrames ==
    { Frame(<<>>, RecallPix(Rose)),
      Frame(<<Det(P1, 9)>>, RecallPix(Rose)),
      Frame(<<Det(Q1, 9)>>, RecallPix(Rose)),
      Frame(<<Det(Q1, 9)>>, RecallPix(Gold)),
      Frame(<<Det(P2, 9)>>, RecallPix(Rose)),
      Frame(<<Det(P1, 9), Det(Q1, 8)>>, RecallPix(Rose)),
      Frame(<<Det(P1, 9), Det(Thin, 8)>>, RecallPix(Rose)) }

\* POST /targets/select bodies: a tap on a place (where a track may or may
\* not be), and one out of range
Frac(n, d) == [n |-> n, d |-> d]
TapOn(b) == [x |-> Frac(b[1] + 2, 48), y |-> Frac(2, 8)]
Taps == {TapOn(P1), TapOn(P2), [x |-> Frac(49, 48), y |-> Frac(2, 8)]}
\* DELETE /targets/{slot_id}: the slots two tracks can take, and one on either
\* side of 1..MAX_TARGETS
SlotIds == {0, 1, 2, MAX_TARGETS + 1}
FullTaps == {TapOn(b) : b \in Places}
\* the centre of P1 (inside Q1 too), the right edge of Q1, and the centre of
\* P2 where the sliver is
RecallTaps == {TapOn(P1), [x |-> Frac(5, 48), y |-> Frac(2, 8)], TapOn(P2)}

(***************************************************************************)
(* The processing cycle, main.py 337-465, one action per critical section. *)
(***************************************************************************)
\* prior is a history field: the tracker and the registry as the cycle found
\* them
NoPrior == [tracks |-> << >>, next_id |-> 1, selected_tracks |-> << >>, slot_memory |-> << >>]
NoLoc == [frame |-> <<>>, tracked |-> <<>>, descriptors |-> <<>>, now |-> 0,
          inactive_slots |-> <<>>, active_ids |-> {}, i |-> 0, selected_map |-> <<>>,
          prior |-> NoPrior]

NoReply == [op |-> "none"]

\* a variant in which handlers run on threads of their own
HandlerMayRunPreemptive == TRUE
\* The generator and the handlers are coroutines of one event loop: a handler
\* runs only while the generator is suspended at an await (main.py 343, 453,
\* 461, 465), never between two critical sections of a cycle.
HandlerMayRun == pc = "idle"

\* time.time(): the clock moves on between cycles, up to MaxClock
Tick == IF clock < MaxClock THEN clock + 1 ELSE clock

\* main.py 341-385: take a frame, run the detector and the tracker, extract
\* the descriptors
CycleUpdate(frame, cap) ==
    /\ UNCHANGED <<faults, lk>>
    /\ pc = "idle"
    /\ TrackerUpdate(frame.dets, cap)
    /\ clock' = Tick
    /\ reply' = NoReply
    /\ pc' = "reassign"
    /\ loc' = [NoLoc EXCEPT
                  !.frame = frame,
                  !.prior = [tracks |-> tracks, next_id |-> next_id,
                             selected_tracks |-> selected_tracks,
                             slot_memory |-> slot_memory],
                  !.tracked = TrackedObjects(tracks'),
                  !.descriptors = [t \in DOMAIN tracks' |->
                                      ExtractDescriptor(frame, tracks'[t].bbox)]]
    /\ UNCHANGED <<selected_tracks, slot_memory, latest_detections>>

\* main.py 275-282: the snapshot _auto_reassign takes under targets_lock
ReassignSnapshot ==
    /\ UNCHANGED <<faults, lk>>
    /\ pc = "reassign"
    /\ pc' = "reassign_loop"
    /\ loc' = [loc EXCEPT
                  !.now = clock,
                  !.inactive_slots =
                      [s \in {x \in DOMAIN slot_memory : slot_memory[x].track_id = NoId}
                          |-> slot_memory[s]],
                  !.active_ids = DOMAIN selected_tracks,
                  !.i = 1]
    /\ upd' = NoUpdate
    /\ UNCHANGED <<next_id, tracks, retired, selected_tracks, slot_memory, latest_detections,
                   clock, reply>>

\* the objects from loc.i on that reach the critical section of main.py 313
ReassignPending ==
    {k \in loc.i..Len(loc.tracked) :
        /\ loc.tracked[k].id \notin loc.active_ids
        /\ BestSlots(loc.tracked[k], loc.descriptors[loc.tracked[k].id],
                     loc.inactive_slots) # {}}

\* main.py 283-324: the loop runs on to the next object that has a best_slot
\* and executes its critical section
ReassignStep ==
    /\ UNCHANGED <<faults, lk>>
    /\ pc = "reassign_loop"
    /\ ReassignPending # {}
    /\ LET k == Lowest(ReassignPending)
           obj == loc.tracked[k]
           descriptor == loc.descriptors[obj.id]
       IN \E best_slot \in BestSlots(obj, descriptor, loc.inactive_slots) :
          \E r \in {Rebind(selected_tracks, slot_memory, obj, descriptor,
                           best_slot, loc.now)} :
             /\ selected_tracks' = r.sel
             /\ slot_memory' = r.mem
             /\ loc' = [loc EXCEPT !.i = k + 1,
                                   !.active_ids = IF r.bound THEN @ \cup {obj.id} ELSE @]
    /\ UNCHANGED <<trackerVars, latest_detections, clock, pc, reply>>

\* the loop ends: no further object reaches the critical section
ReassignDone ==
    /\ UNCHANGED <<faults, lk>>
    /\ pc = "reassign_loop"
    /\ ReassignPending = {}
    /\ pc' = "prune"
    /\ loc' = [loc EXCEPT !.i = 0]
    /\ UNCHANGED <<trackerVars, selected_tracks, slot_memory, latest_detections,
                   clock, reply>>

\* main.py 387-388
Prune ==
    /\ UNCHANGED <<faults, lk>>
    /\ pc = "prune"
    /\ \E r \in {PruneSelected(selected_tracks, slot_memory,
                               {loc.tracked[k].id : k \in DOMAIN loc.tracked})} :
          /\ selected_tracks' = r.sel
          /\ slot_memory' = r.mem
    /\ pc' = "snapshot"
    /\ UNCHANGED <<trackerVars, latest_detections, clock, loc, reply>>

\* main.py 389-394
Snapshot ==
    /\ UNCHANGED <<faults, lk>>
    /\ pc = "snapshot"
    /\ pc' = "refresh"
    /\ loc' = [loc EXCEPT
                  !.selected_map = SelectedMap(SelectedSnapshot(selected_tracks, slot_memory)),
                  !.i = 1]
    /\ UNCHANGED <<trackerVars, selected_tracks, slot_memory, latest_detections,
                   clock, reply>>

\* the objects from loc.i on that have a slot in selected_map
RefreshPending ==
    {k \in loc.i..Len(loc.tracked) : loc.tracked[k].id \in DOMAIN loc.selected_map}

\* main.py 396-431: the loop runs on to the next selected object and
\* refreshes its slot under targets_lock
RefreshStep ==
    /\ UNCHANGED <<faults, lk>>
    /\ pc = "refresh"
    /\ RefreshPending # {}
    /\ LET k == Lowest(RefreshPending)
           obj == loc.tracked[k]
       IN /\ slot_memory' = RefreshSlot(slot_memory, loc.selected_map[obj.id], obj,
                                        loc.descriptors[obj.id], clock)
          /\ loc' = [loc EXCEPT !.i = k + 1]
    /\ UNCHANGED <<trackerVars, selected_tracks, latest_detections, clock, pc, reply>>

\* main.py 443-461: publish the detections, encode, yield and await
Publish ==
    /\ faults' = 0
    /\ UNCHANGED lk
    /\ pc = "refresh"
    /\ RefreshPending = {}
    /\ latest_detections' =
           [width |-> loc.frame.shape.width, height |-> loc.frame.shape.height,
            objects |-> ObjectsPayload(loc.tracked, loc.selected_map),
            timestamp |-> clock]
    /\ pc' = "idle"
    /\ loc' = NoLoc
    /\ UNCHANGED <<trackerVars, selected_tracks, slot_memory, clock, reply>>

\* main.py 462-465: an exception anywhere in the cycle ends it
Fault ==
    /\ faults < MaxFaults
    /\ faults' = faults + 1
    /\ UNCHANGED lk
    /\ pc # "idle"
    /\ pc' = "idle"
    /\ loc' = NoLoc
    /\ upd' = NoUpdate
    /\ UNCHANGED <<next_id, tracks, retired, selected_tracks, slot_memory, latest_detections,
                   clock, reply>>

(***************************************************************************)
(* The HTTP handlers, main.py 546-587.                                     *)
(***************************************************************************)
InRange(f) == 0 <= f.n /\ f.n <= f.d

SelectTarget(tap) ==
    /\ UNCHANGED <<faults, lk>>
    /\ HandlerMayRun
    /\ IF ~(InRange(tap.x) /\ InRange(tap.y))
       THEN /\ reply' = [op |-> "select", status |-> "400", slot |-> NoId,
                         track_id |-> NoId]
            /\ UNCHANGED <<selected_tracks, slot_memory>>
       ELSE LET track_id == FindTrackByPoint(tap.x, tap.y, latest_detections)
            IN IF track_id = NoId
               THEN /\ reply' = [op |-> "select", status |-> "not_found", slot |-> NoId,
                                 track_id |-> NoId]
                    /\ UNCHANGED <<selected_tracks, slot_memory>>
               ELSE \E r \in {ToggleTrack(selected_tracks, slot_memory, track_id, clock)} :
                       /\ selected_tracks' = r.sel
                       /\ slot_memory' = r.mem
                       /\ reply' = [op |-> "select", status |-> r.status,
                                    slot |-> r.slot, track_id |-> track_id]
    /\ UNCHANGED <<trackerVars, latest_detections, clock, pc, loc>>

DeleteTarget(slot_id) ==
    /\ UNCHANGED <<faults, lk>>
    /\ HandlerMayRun
    /\ \E r \in {DeleteSlot(selected_tracks, slot_memory, slot_id)} :
          /\ selected_tracks' = r.sel
          /\ slot_memory' = r.mem
          /\ reply' = [op |-> "delete", status |-> r.status,
                       slot |-> IF r.status = "removed" THEN slot_id ELSE NoId,
                       track_id |-> r.track_id]
    /\ UNCHANGED <<trackerVars, latest_detections, clock, pc, loc>>

(***************************************************************************)
(* The locks, main.py 79-81.  Every use is a with statement; a path is the *)
(* list of acquire and release operations a piece of code performs, in     *)
(* order.  threading.Lock is not reentrant.                                *)
(***************************************************************************)
Locks == {"detections_lock", "targets_lock", "room_lock"}
Threads == {"generator", "request1", "request2"}
Free == "none"

Acq(l) == <<"acquire", l>>
Rel(l) == <<"release", l>>
\* with l: ... (a body that takes no lock)
With(l) == <<Acq(l), Rel(l)>>

RECURSIVE Times(_, _)
Times(path, n) == IF n = 0 THEN <<>> ELSE path \o Times(path, n - 1)

\* main.py 119-126 and 129-143
DetectionsSnapshotPath == With("detections_lock")
SelectedSnapshotPath == With("targets_lock")
\* main.py 146-159
PruneSelectedPath == With("targets_lock")
\* a variant in which _next_available_slot takes targets_lock itself
ToggleTrackPathNested ==
    <<Acq("targets_lock"), Acq("targets_lock"), Rel("targets_lock"), Rel("targets_lock")>>
\* main.py 190-208: _next_available_slot (162-170) is called inside the with
\* statement and takes no lock
ToggleTrackPath == With("targets_lock")
\* main.py 271-324: the snapshot, then one section per track with a best_slot
AutoReassignPath(n) == With("targets_lock") \o Times(With("targets_lock"), n)

\* main.py 382-447: one cycle of inference_frame_generator, from one await to
\* the next
GeneratorPaths ==
    {AutoReassignPath(n) \o PruneSelectedPath \o SelectedSnapshotPath
        \o Times(With("targets_lock"), m) \o With("detections_lock") :
     n \in 0..MaxSections, m \in 0..MaxSections}

\* main.py 468-587: the handlers that take a lock
RequestPaths ==
    { With("room_lock"),                                          \* index, get_room, update_room
      SelectedSnapshotPath \o DetectionsSnapshotPath,             \* get_targets
      DetectionsSnapshotPath \o SelectedSnapshotPath,             \* select_target, not_found
      DetectionsSnapshotPath \o ToggleTrackPath \o SelectedSnapshotPath,  \* select_target
      With("targets_lock") \o SelectedSnapshotPath }              \* delete_target

NoLocks == [held |-> [l \in Locks |-> Free], todo |-> [t \in Threads |-> <<>>]]

HeldBy(t) == {l \in Locks : lk.held[l] = t}

\* a thread at an await, or a request thread without a request, starts a path
LockStart(t) ==
    /\ lk.todo[t] = <<>>
    /\ \E path \in IF t = "generator" THEN GeneratorPaths ELSE RequestPaths :
          lk' = [lk EXCEPT !.todo[t] = path]

\* Lock.acquire, the entry of a with statement: blocks while the lock is held
LockAcquire(t) ==
    /\ lk.todo[t] # <<>>
    /\ Head(lk.todo[t])[1] = "acquire"
    /\ lk.held[Head(lk.todo[t])[2]] = Free
    /\ lk' = [lk EXCEPT !.held[Head(lk.todo[t])[2]] = t, !.todo[t] = Tail(@)]

\* Lock.release, the normal exit of a with statement
LockRelease(t) ==
    /\ lk.todo[t] # <<>>
    /\ Head(lk.todo[t])[1] = "release"
    /\ lk' = [lk EXCEPT !.held[Head(lk.todo[t])[2]] = Free, !.todo[t] = Tail(@)]

\* an exception (HTTPException of main.py 575, or any caught at 462): the
\* with statements it leaves release their locks, and the path ends
LockRaise(t) ==
    /\ lk.todo[t] # <<>>
    /\ lk' = [held |-> [l \in Locks |-> IF lk.held[l] = t THEN Free ELSE lk.held[l]],
              todo |-> [lk.todo EXCEPT ![t] = <<>>]]

LockStep ==
    /\ \E t \in Threads :
          \/ LockStart(t)
          \/ LockAcquire(t)
          \/ LockRelease(t)
          \/ LockRaise(t)
    /\ UNCHANGED <<next_id, tracks, upd, retired, selected_tracks, slot_memory,
                   latest_detections, clock, pc, loc, reply, faults>>

(***************************************************************************)
(* Specifications.                                                         *)
(***************************************************************************)
Init ==
    /\ next_id = 1
    /\ tracks = << >>
    /\ upd = NoUpdate
    /\ retired = {}
    /\ selected_tracks = << >>
    /\ slot_memory = << >>
    /\ latest_detections = [width |-> 0, height |-> 0, objects |-> <<>>, timestamp |-> 0]
    /\ clock = 0
    /\ pc = "idle"
    /\ loc = NoLoc
    /\ reply = NoReply
    /\ faults = 0
    /\ lk = NoLocks

\* the steps of a cycle once it has its frame
CycleStep ==
    \/ ReassignSnapshot
    \/ ReassignStep
    \/ ReassignDone
    \/ Prune
    \/ Snapshot
    \/ RefreshStep
    \/ Publish

Next ==
    \/ \E frame \in Frames : CycleUpdate(frame, MaxCycleId)
    \/ CycleStep
    \/ Fault
    \/ \E tap \in Taps : SelectTarget(tap)
    \/ \E slot_id \in SlotIds : DeleteTarget(slot_id)

Spec == Init /\ [][Next]_vars

\* five people in view, so that every slot can be taken; the client sends one
\* request per frame it receives, and no cycle ends in an exception
FullNext ==
    \/ \E frame \in FullFrames : CycleUpdate(frame, Cardinality(Places))
    \/ CycleStep
    \/ reply = NoReply /\ \E tap \in FullTaps : SelectTarget(tap)
    \/ reply = NoReply /\ \E slot_id \in 1..MAX_TARGETS : DeleteTarget(slot_id)

FullSpec == Init /\ [][FullNext]_vars

\* people who stand close, come back after an absence, or are seen as a
\* sliver; no cycle ends in an exception
RecallNext ==
    \/ \E frame \in RecallFrames : CycleUpdate(frame, MaxCycleId)
    \/ CycleStep
    \/ \E tap \in RecallTaps : SelectTarget(tap)

RecallSpec == Init /\ [][RecallNext]_vars

\* two people dressed alike come into view together after two selected
\* people have left; no cycle ends in an exception
CrowdFrames ==
    { Frame(<<>>, RecallPix(Rose)),
      Frame(<<Det(P1, 9)>>, RecallPix(Rose)),
      Frame(<<Det(P2, 9)>>, RecallPix(Rose)),
      Frame(<<Det(Q1, 9), Det(P2, 8)>>, RecallPix(Rose)) }

CrowdNext ==
    \/ \E frame \in CrowdFrames : CycleUpdate(frame, MaxCycleId)
    \/ CycleStep
    \/ \E tap \in Taps : SelectTarget(tap)

CrowdSpec == Init /\ [][CrowdNext]_vars

\* the generator and two requests as threads that take and release the locks
LockSpec == Init /\ [][LockStep]_vars

\* the tracker alone, driven by detection lists over a small grid
TrackerStep ==
    /\ UNCHANGED <<faults, lk>>
    /\ \E f \in TrackerFrames : TrackerUpdate(f, MaxId)
    /\ UNCHANGED <<selected_tracks, slot_memory, latest_detections, clock, pc, loc, reply>>

TrackerSpec == Init /\ [][TrackerStep]_vars

\* the generator keeps taking frames for as long as the stream is read
TrackerFairSpec == TrackerSpec /\ WF_vars(TrackerStep)

\* one box of constant size seen in every frame, moved between consecutive
\* frames by less than its width and its height; the sequence is followed
\* until a second track exists
StableBoxes == {<<x, y, x + 4, y + 4>> : x \in 0..StableGrid, y \in 0..StableGrid}
Newest(trk) == CHOOSE t \in DOMAIN trk : trk[t].lost = 0
MovedLessThanSize(a, b) ==
    /\ a[1] - b[1] < b[3] - b[1] /\ b[1] - a[1] < b[3] - b[1]
    /\ a[2] - b[2] < b[4] - b[2] /\ b[2] - a[2] < b[4] - b[2]

StableStep ==
    /\ DOMAIN tracks \subseteq {1}
    /\ \E b \in StableBoxes :
          /\ tracks # << >> => MovedLessThanSize(tracks[Newest(tracks)].bbox, b)
          /\ TrackerUpdate(<<Det(b, 9)>>, MaxId)
    /\ UNCHANGED <<selected_tracks, slot_memory, latest_detections, clock, pc, loc,
                   reply, faults, lk>>

StableSpec == Init /\ [][StableStep]_vars

(***************************************************************************)
(* The frame associator, tracking.py.                                      *)
(***************************************************************************)
RegisteredIds(u) == {u.registered[i] : i \in DOMAIN u.registered}
MatchedIds(u) == {u.matches[i][1] : i \in DOMAIN u.matches}

\* C1: every identity handed out by an update call differs from the identity
\* of every track live at that moment and from the others handed out in the
\* same call, no live track is overwritten by a registration, and the counter
\* never names a live track.
C1_FreshIdentity ==
    /\ [](next_id \notin DOMAIN tracks)
    /\ [][ /\ RegisteredIds(upd') \cap DOMAIN tracks = {}
           /\ Cardinality(RegisteredIds(upd')) = Len(upd'.registered)
           /\ Cardinality(DOMAIN tracks') =
                  Cardinality(DOMAIN tracks) - Cardinality(upd'.expired)
                      + Len(upd'.registered) ]_vars

\* a registration while older tracks are live, after an identity has expired
C1_Witness ==
    /\ upd.registered # <<>>
    /\ Cardinality(DOMAIN tracks) > Len(upd.registered)
    /\ retired # {}

\* the pair passes the test of tracking.py 98-104
Eligible(a, b) ==
    \/ IouAtLeast(ComputeIou(a, b), MatchIouPct)
    \/ RatioAtMost(CenterDistanceRatio(a, b), MatchCenterPct)

\* C2 as stated: one box of constant size, moved by less than its size from
\* frame to frame, keeps one track id and no second track is created.
C2_StableIdentity == DOMAIN tracks \subseteq {1}

\* C2: one box seen in every frame keeps the track id 1, and no second track
\* is created, as long as each box and the one of the frame before pass the
\* association test (IoU >= 0.2, or centre distance <= 0.35 of the diagonal).
C2_StableWhileEligible ==
    [][ /\ tracks = << >> => DOMAIN tracks' = {1}
        /\ (DOMAIN tracks = {1} /\ Eligible(tracks[1].bbox, tracks'[Newest(tracks')].bbox))
              => (DOMAIN tracks' = {1} /\ MatchedIds(upd') = {1}) ]_vars

\* the single track has been matched by the box of a later frame
C2_Witness ==
    /\ DOMAIN tracks = {1}
    /\ MatchedIds(upd) = {1}
    /\ tracks[1].bbox # <<0, 0, 4, 4>>

\* C3: a track unmatched in an update call stays live with lost one higher
\* while that count is at most max_lost, and leaves the live set in the call
\* that takes it above max_lost; a matched track stays with lost = 0.
C3_ExpiryTiming ==
    /\ [](\A t \in DOMAIN tracks : tracks[t].lost \in 0..MaxLost)
    /\ [][ \A t \in DOMAIN tracks :
             IF t \in MatchedIds(upd')
             THEN t \in DOMAIN tracks' /\ tracks'[t].lost = 0
             ELSE IF tracks[t].lost + 1 <= MaxLost
             THEN t \in DOMAIN tracks' /\ tracks'[t].lost = tracks[t].lost + 1
             ELSE t \notin DOMAIN tracks' /\ t \in upd'.expired ]_vars

\* one track has just expired while another is at its last tolerated miss
C3_Witness ==
    /\ upd.expired # {}
    /\ \E t \in DOMAIN tracks : tracks[t].lost = MaxLost

\* C4 as stated: the identity of an expired track is never given to a track
\* created later.
C4_NeverReused ==
    \A t \in 1..MaxId : [](t \in upd.expired => [](t \notin RegisteredIds(upd)))

\* C4: the identity of an expired track is not given to a track created later
\* for as long as the live set has not become empty since the expiry.
C4_NotReusedWhileLive ==
    [][ RegisteredIds(upd') \cap retired = {} ]_vars

\* a track is created while an expired identity is on record
C4_Witness ==
    /\ retired # {}
    /\ upd.registered # <<>>
    /\ upd.expired = {}

(***************************************************************************)
(* The slot registry, main.py.                                             *)
(***************************************************************************)
BoundSlots(mem) == {s \in MemSlots(mem) : MemGet(mem, s).track_id # NoId}
AllBound == BoundSlots(slot_memory) = 1..MAX_TARGETS

\* a POST /targets/select that reached _toggle_track has just been answered
Toggled == reply'.op = "select" /\ reply' # reply /\ reply'.track_id # NoId

\* C5: whatever requests and cycles have run, at most MAX_TARGETS slots are
\* bound at once and every slot that exists is one of 1..MAX_TARGETS.
C5_SlotCapacity ==
    /\ Cardinality(DOMAIN selected_tracks) <= MAX_TARGETS
    /\ Cardinality(BoundSlots(slot_memory)) <= MAX_TARGETS
    /\ MemSlots(slot_memory) \subseteq 1..MAX_TARGETS
    /\ \A t \in DOMAIN selected_tracks : selected_tracks[t] \in 1..MAX_TARGETS

\* all four slots are bound while a fifth track is in view
C5_Witness ==
    /\ AllBound
    /\ Cardinality(DOMAIN selected_tracks) = MAX_TARGETS
    /\ Cardinality(DOMAIN tracks) > MAX_TARGETS

\* C6: a toggle answers full exactly when all MAX_TARGETS slots are bound and
\* the track is not bound; it then names no slot and leaves the binding map
\* and every slot's memory as they were.
C6_FullOnlyWhenAllBound ==
    [][ Toggled =>
          /\ reply'.status = "full" <=>
                 (AllBound /\ reply'.track_id \notin DOMAIN selected_tracks)
          /\ reply'.status = "full" =>
                 /\ reply'.slot = NoId
                 /\ UNCHANGED <<selected_tracks, slot_memory>> ]_vars

\* a fifth selection has been answered full
C6_Witness ==
    /\ reply.op = "select"
    /\ reply.status = "full"
    /\ AllBound

\* C7 as stated: between two cycles, toggling a track that is not bound twice
\* in a row answers added then removed for the same slot and leaves the
\* binding map and the slots, with their memory, as they were.
C7_ToggleTwiceRestores ==
    pc = "idle" =>
       \A k \in DOMAIN latest_detections.objects :
          LET id == latest_detections.objects[k].id
              first == ToggleTrack(selected_tracks, slot_memory, id, clock)
              second == ToggleTrack(first.sel, first.mem, id, clock)
          IN (id \notin DOMAIN selected_tracks /\ first.status # "full") =>
                /\ first.status = "added"
                /\ second.status = "removed"
                /\ second.slot = first.slot
                /\ second.sel = selected_tracks
                /\ second.mem = slot_memory

\* C8 as stated: the slot a toggle allocates is the lowest of 1..MAX_TARGETS
\* that is not bound to a track.
C8_LowestUnboundSlot ==
    [][ (Toggled /\ reply'.status = "added") =>
           reply'.slot = Lowest((1..MAX_TARGETS) \ BoundSlots(slot_memory)) ]_vars

\* C9: between any two critical sections, selected_tracks maps track t to
\* slot s exactly when slot s exists in slot_memory with track_id t.
C9_BindingAgreement ==
    /\ \A t \in DOMAIN selected_tracks :
          /\ MemHas(slot_memory, selected_tracks[t])
          /\ MemGet(slot_memory, selected_tracks[t]).track_id = t
    /\ \A s \in BoundSlots(slot_memory) :
          /\ MemGet(slot_memory, s).track_id \in DOMAIN selected_tracks
          /\ selected_tracks[MemGet(slot_memory, s).track_id] = s

\* the running cycle has just rebound a slot that its snapshot saw unbound
Recalled == {s \in DOMAIN loc.inactive_slots : s \in BoundSlots(slot_memory)}
C9_Witness ==
    /\ pc = "reassign_loop"
    /\ Recalled # {}

\* C10: no two slots are bound to the same track and no two tracks to the
\* same slot.
C10_BindingUnique ==
    /\ \A t1, t2 \in DOMAIN selected_tracks :
          selected_tracks[t1] = selected_tracks[t2] => t1 = t2
    /\ \A s1, s2 \in BoundSlots(slot_memory) :
          MemGet(slot_memory, s1).track_id = MemGet(slot_memory, s2).track_id => s1 = s2

\* two tracks are bound, one of them by the recall of the running cycle
C10_Witness ==
    /\ Cardinality(DOMAIN selected_tracks) = 2
    /\ Cardinality(BoundSlots(slot_memory)) = 2
    /\ Recalled # {}

(***************************************************************************)
(* Recall, main.py 271-324, seen when _auto_reassign has returned          *)
(* (pc = "prune"): loc.inactive_slots is the snapshot it took, and the     *)
(* slots outside it were bound when it started.                            *)
(***************************************************************************)
\* the slots that were bound, and the tracks that were not, when the
\* _auto_reassign of this cycle started
BoundAtStart == MemSlots(slot_memory) \ DOMAIN loc.inactive_slots
UnboundAtStart ==
    {k \in DOMAIN loc.tracked :
        \/ loc.tracked[k].id \notin DOMAIN selected_tracks
        \/ selected_tracks[loc.tracked[k].id] \in DOMAIN loc.inactive_slots}

\* the track stands on the box the slot remembers, IoU >= SLOT_RECALL_IOU
AtLastKnown(obj, info) ==
    /\ info.bbox # NoBox
    /\ IouAtLeast(BboxIou(obj.bbox, info.bbox), SlotRecallIouPct)

AppearanceAllows(descriptor, info) ==
    \/ descriptor = NoDesc
    \/ info.descriptor = NoDesc
    \/ RatioAtMost(DescriptorDistance(descriptor, info.descriptor), SlotRecallDescriptorPct)

LiveIds == {loc.tracked[k].id : k \in DOMAIN loc.tracked}

\* C12: _prune_selected removes from the binding map every track that is not
\* in the live list and empties the track id of its slot, leaving the slot's
\* bbox, descriptor and last_seen as they were; the slots of live tracks and
\* the unbound slots are left as they were, and no slot appears or disappears.
C12_ReconcileEffect ==
    [][ (pc = "prune" /\ pc' = "snapshot") =>
          /\ MemSlots(slot_memory') = MemSlots(slot_memory)
          /\ DOMAIN selected_tracks' = DOMAIN selected_tracks \cap LiveIds
          /\ \A t \in DOMAIN selected_tracks' : selected_tracks'[t] = selected_tracks[t]
          /\ \A s \in MemSlots(slot_memory) :
                LET info == MemGet(slot_memory, s)
                IN IF info.track_id # NoId /\ info.track_id \notin LiveIds
                   THEN MemGet(slot_memory', s) = [info EXCEPT !.track_id = NoId]
                   ELSE MemGet(slot_memory', s) = info ]_vars

\* reconcile has just unbound one slot, which keeps its box and descriptor,
\* and has left another bound to its live track
C12_Witness ==
    /\ pc = "snapshot"
    /\ \E s \in BoundAtStart :
          /\ MemGet(slot_memory, s).track_id = NoId
          /\ MemGet(slot_memory, s).bbox # NoBox
          /\ MemGet(slot_memory, s).descriptor # NoDesc
    /\ \E s \in BoundAtStart : MemGet(slot_memory, s).track_id \in LiveIds

(***************************************************************************)
(* DELETE /targets/{slot_id}, main.py 568-587.                             *)
(***************************************************************************)
\* C13: a delete of a slot that has an entry, bound or not, answers removed,
\* removes that entry and the binding of the track it was bound to, and leaves
\* every other slot and binding as it was; a delete of a slot without an entry
\* answers 404 and changes neither the binding map nor any slot.
C13_DeleteEffect ==
    [][ \A slot_id \in SlotIds :
          DeleteTarget(slot_id) =>
             IF slot_id \in MemSlots(slot_memory)
             THEN /\ reply'.status = "removed"
                  /\ reply'.slot = slot_id
                  /\ reply'.track_id = MemGet(slot_memory, slot_id).track_id
                  /\ MemSlots(slot_memory') = MemSlots(slot_memory) \ {slot_id}
                  /\ \A s \in MemSlots(slot_memory') :
                        MemGet(slot_memory', s) = MemGet(slot_memory, s)
                  /\ DOMAIN selected_tracks' =
                        {t \in DOMAIN selected_tracks : selected_tracks[t] # slot_id}
                  /\ \A t \in DOMAIN selected_tracks' :
                        selected_tracks'[t] = selected_tracks[t]
             ELSE /\ reply'.status \in {"404 slot not found", "404 slot not assigned"}
                  /\ UNCHANGED <<selected_tracks, slot_memory>> ]_vars

\* an unbound slot has been deleted with its memory while another slot stays
\* bound
C13_Witness ==
    /\ reply.op = "delete"
    /\ reply.status = "removed"
    /\ reply.track_id = NoId
    /\ reply.slot \notin MemSlots(slot_memory)
    /\ BoundSlots(slot_memory) # {}

(***************************************************************************)
(* POST /targets/select, main.py 546-565: the track under the point.       *)
(***************************************************************************)
\* the objects of the snapshot whose bbox contains the point (norm_x * width,
\* norm_y * height)
Under(tap, snapshot) ==
    {k \in DOMAIN snapshot.objects :
        LET bbox == snapshot.objects[k].bbox
        IN /\ bbox[1] * tap.x.d <= tap.x.n * snapshot.width
           /\ tap.x.n * snapshot.width <= bbox[3] * tap.x.d
           /\ bbox[2] * tap.y.d <= tap.y.n * snapshot.height
           /\ tap.y.n * snapshot.height <= bbox[4] * tap.y.d}

\* C14: for a point of [0,1] x [0,1] the handler finds no track exactly when
\* no bbox of the published snapshot contains the scaled point, and otherwise
\* the track it toggles is one whose bbox contains the point and whose
\* confidence is the highest among those.
C14_TrackAtPoint ==
    [][ \A tap \in RecallTaps :
          SelectTarget(tap) =>
             LET objs == latest_detections.objects
                 hits == Under(tap, latest_detections)
             IN IF hits = {}
                THEN reply'.status = "not_found" /\ reply'.track_id = NoId
                ELSE \E k \in hits :
                        /\ reply'.track_id = objs[k].id
                        /\ reply'.status \in {"added", "removed", "full"}
                        /\ \A j \in hits : objs[j].conf <= objs[k].conf ]_vars

\* two published boxes contain the centre of P1 and the request has been
\* answered with the second of the list, the one of higher confidence
C14_Witness ==
    /\ reply.op = "select"
    /\ Len(latest_detections.objects) = 2
    /\ Under(TapOn(P1), latest_detections) = {1, 2}
    /\ latest_detections.objects[2].conf > latest_detections.objects[1].conf
    /\ latest_detections.objects[2].bbox = P1
    /\ reply.track_id = latest_detections.objects[2].id

(***************************************************************************)
(* The exception handler of the cycle, main.py 462-465.                    *)
(***************************************************************************)
\* C15 as stated: a cycle that ends in an exception leaves the tracker, the
\* binding map, the slot memory and the published snapshot as they were
\* before the cycle began.
C15_FailStatic ==
    [][ Fault =>
          /\ tracks' = loc.prior.tracks
          /\ next_id' = loc.prior.next_id
          /\ selected_tracks' = loc.prior.selected_tracks
          /\ slot_memory' = loc.prior.slot_memory
          /\ latest_detections' = latest_detections ]_vars

(***************************************************************************)
(* GET /targets, main.py 519-526: the handler is a coroutine of the event  *)
(* loop like the others and reads both snapshots without an await, so it   *)
(* observes the states in which HandlerMayRun holds.                       *)
(***************************************************************************)
\* what GET /targets answers in a state
TargetsView(sel, mem, detections) ==
    [selected |-> SelectedSnapshot(sel, mem), detected |-> detections]

\* C16 as stated: when a cycle hands control back to the event loop, what a
\* status query then observes is the registry and the snapshot either as the
\* cycle found them or with the whole cycle applied (_auto_reassign,
\* _prune_selected, the memory refresh and the publication), never with a part
\* of it.
C16_WholeCycleVisible ==
    [][ (~HandlerMayRun /\ HandlerMayRun') =>
          \/ Publish
          \/ TargetsView(selected_tracks', slot_memory', latest_detections') =
                TargetsView(loc.prior.selected_tracks, loc.prior.slot_memory,
                            latest_detections) ]_vars

(***************************************************************************)
(* Requests against the cycle, main.py 546-587 and 382-447.                *)
(***************************************************************************)
\* C17 as stated: a toggle or a delete takes effect only between cycles,
\* never between the tracker update of a cycle and the end of its registry
\* mutations, and so a toggle never binds a slot to an identity that a cycle
\* has removed from the live set.
C17_AtomicSelection ==
    [][ /\ \A tap \in Taps :
              SelectTarget(tap) =>
                 /\ pc = "idle"
                 /\ reply'.status = "added" => reply'.track_id \in DOMAIN tracks
        /\ \A slot_id \in SlotIds : DeleteTarget(slot_id) => pc = "idle" ]_vars

(***************************************************************************)
(* The memory of an unbound slot, main.py 162-170 and 190-208.             *)
(***************************************************************************)
\* the slots that are unbound and remember a box
Remembered(mem) ==
    {s \in MemSlots(mem) : MemGet(mem, s).track_id = NoId /\ MemGet(mem, s).bbox # NoBox}

\* C18 as stated: a slot that is unbound with its memory keeps its bbox and
\* its descriptor and stays unbound, unless the step is the recall of that
\* slot by _auto_reassign or a DELETE of that slot; no toggle discards or
\* overwrites the memory.
C18_MemoryRetained ==
    [][ \A s \in Remembered(slot_memory) :
          \/ /\ s \in Remembered(slot_memory')
             /\ MemGet(slot_memory', s).bbox = MemGet(slot_memory, s).bbox
             /\ MemGet(slot_memory', s).descriptor = MemGet(slot_memory, s).descriptor
          \/ /\ pc = "reassign_loop"
             /\ s \in BoundSlots(slot_memory')
          \/ DeleteTarget(s) ]_vars


(***************************************************************************)
(* Appearance and geometry in _auto_reassign, main.py 283-311.             *)
(***************************************************************************)
\* the slot is accepted by appearance: both descriptors are there and their
\* distance is within SLOT_RECALL_DESCRIPTOR
ByAppearance(descriptor, info) ==
    /\ descriptor # NoDesc
    /\ info.descriptor # NoDesc
    /\ RatioAtMost(DescriptorDistance(descriptor, info.descriptor), SlotRecallDescriptorPct)

\* the score of the geometric branch, main.py 299-308
GeometricScore(obj, info) ==
    IF info.bbox = NoBox THEN NoScore
    ELSE IF IouAtLeast(BboxIou(obj.bbox, info.bbox), SlotRecallIouPct)
    THEN IouScore(BboxIou(obj.bbox, info.bbox))
    ELSE IF RatioAtMost(BboxCenterRatio(obj.bbox, info.bbox), SlotRecallCenterPct)
    THEN DistScore(BboxCenterRatio(obj.bbox, info.bbox))
    ELSE NoScore

\* the pass has rebound slot s of its snapshot to the k-th track of the list
ReboundTo(k, s) ==
    /\ s \in DOMAIN loc.inactive_slots
    /\ loc.tracked[k].id \in DOMAIN selected_tracks
    /\ selected_tracks[loc.tracked[k].id] = s

\* C19 as stated: an unbound live track has a descriptor and at least one
\* unbound slot is acceptable by appearance: the slot rebound to the track is
\* one accepted by appearance, never one whose score is geometric.
C19_AppearanceFirst ==
    pc = "prune" =>
       \A k \in UnboundAtStart : \A s \in DOMAIN loc.inactive_slots :
          LET descriptor == loc.descriptors[loc.tracked[k].id]
          IN (/\ descriptor # NoDesc
              /\ \E a \in DOMAIN loc.inactive_slots :
                    ByAppearance(descriptor, loc.inactive_slots[a])
              /\ ReboundTo(k, s))
             => ByAppearance(descriptor, loc.inactive_slots[s])

\* C19: for an unbound live track that has a descriptor, a slot that holds a
\* descriptor is rebound to it only when accepted by appearance, whatever its
\* geometry; a slot rebound on a geometric score holds no descriptor, and its
\* score is not below the appearance score of any slot acceptable by
\* appearance.
C19_AppearancePerSlot ==
    pc = "prune" =>
       \A k \in UnboundAtStart : \A s \in DOMAIN loc.inactive_slots :
          LET obj == loc.tracked[k]
              descriptor == loc.descriptors[obj.id]
              info == loc.inactive_slots[s]
          IN (descriptor # NoDesc /\ ReboundTo(k, s))
             => /\ info.descriptor # NoDesc => ByAppearance(descriptor, info)
                /\ info.descriptor = NoDesc =>
                      /\ ScoreNonNeg(GeometricScore(obj, info))
                      /\ \A a \in DOMAIN loc.inactive_slots :
                            ByAppearance(descriptor, loc.inactive_slots[a])
                            => ~ScoreGreater(
                                  DistScore(DescriptorDistance(
                                      descriptor, loc.inactive_slots[a].descriptor)),
                                  GeometricScore(obj, info))

\* a track with a descriptor has been given a slot without one on its
\* geometric score, while another slot of the snapshot was acceptable by
\* appearance
C19_Witness ==
    /\ pc = "prune"
    /\ \E k \in UnboundAtStart : \E s, a \in DOMAIN loc.inactive_slots :
          /\ loc.descriptors[loc.tracked[k].id] # NoDesc
          /\ ReboundTo(k, s)
          /\ loc.inactive_slots[s].descriptor = NoDesc
          /\ ByAppearance(loc.descriptors[loc.tracked[k].id], loc.inactive_slots[a])


(***************************************************************************)
(* IoU and centre distance in the greedy matching, tracking.py 96-122.     *)
(***************************************************************************)
\* the pair is eligible by IoU, tracking.py 98
IouEligible(a, b) == IouAtLeast(ComputeIou(a, b), MatchIouPct)

\* C20: a pairing eligible only by centre distance is less preferred than any
\* pairing eligible by IoU: when an update call binds a track to a detection
\* on the distance fallback, no detection eligible by IoU for that track is
\* left to be registered as a new track, and no track eligible by IoU for that
\* detection is left unmatched.
C20_IouPreferred ==
    [][ \A t \in MatchedIds(upd') :
           ~IouEligible(tracks[t].bbox, tracks'[t].bbox)
           => /\ \A r \in RegisteredIds(upd') :
                    ~IouEligible(tracks[t].bbox, tracks'[r].bbox)
              /\ \A u \in DOMAIN tracks \ MatchedIds(upd') :
                    ~IouEligible(tracks[u].bbox, tracks'[t].bbox) ]_vars


(***************************************************************************)
(* The greedy loop as a whole, tracking.py 107-133.                        *)
(***************************************************************************)
\* the score the call gave to the i-th pair it bound: the matched track has
\* taken the box of its detection
BoundScore(i) ==
    PairScore(tracks[upd'.matches[i][1]].bbox, tracks'[upd'.matches[i][1]].bbox)

\* C21: within one update call every live track is bound to at most one
\* detection and every detection to at most one track, each bound pair is
\* eligible, the pairs are bound in non-increasing score order starting with
\* the highest score of the matrix, and no detection registered as a new
\* track was eligible with a track the call left unmatched.
C21_GreedyOneToOne ==
    [][ LET m == upd'.matches
        IN /\ \A i, j \in DOMAIN m :
                 i # j => (m[i][1] # m[j][1] /\ m[i][2] # m[j][2])
           /\ \A i \in DOMAIN m :
                 /\ m[i][1] \in DOMAIN tracks
                 /\ m[i][2] \in 1..upd'.n
                 /\ Eligible(tracks[m[i][1]].bbox, tracks'[m[i][1]].bbox)
           /\ \A i, j \in DOMAIN m :
                 i < j => ~ScoreGreater(BoundScore(j), BoundScore(i))
           /\ m # <<>> =>
                 \A t \in DOMAIN tracks :
                    \A d \in MatchedIds(upd') \cup RegisteredIds(upd') :
                       ~ScoreGreater(PairScore(tracks[t].bbox, tracks'[d].bbox),
                                     BoundScore(1))
           /\ \A u \in DOMAIN tracks \ MatchedIds(upd') :
                 \A r \in RegisteredIds(upd') :
                    ~Eligible(tracks[u].bbox, tracks'[r].bbox)
           /\ Len(m) + Len(upd'.registered) = upd'.n ]_vars

\* a call has bound two pairs, to two detections of different size
C21_Witness ==
    /\ Len(upd.matches) = 2
    /\ BoxArea(tracks[upd.matches[1][1]].bbox) # BoxArea(tracks[upd.matches[2][1]].bbox)


(***************************************************************************)
(* The order of the steps of a cycle, main.py 382-388.                     *)
(***************************************************************************)
\* the slots whose track this cycle's tracker.update removed from the live set
LostThisCycle ==
    {s \in MemSlots(loc.prior.slot_memory) :
        /\ MemGet(loc.prior.slot_memory, s).track_id # NoId
        /\ MemGet(loc.prior.slot_memory, s).track_id \in DOMAIN loc.prior.tracks
        /\ MemGet(loc.prior.slot_memory, s).track_id \notin DOMAIN tracks}

\* C22: the cycle runs the tracker update, then reconcile, then
\* _auto_reassign: while _auto_reassign runs, every slot whose track was
\* removed by this cycle's update is already unbound and among the recall
\* candidates of the pass.
C22_ReconcileBeforeReassign ==
    pc = "reassign_loop" =>
       \A s \in LostThisCycle :
          /\ s \in DOMAIN loc.inactive_slots
          /\ MemGet(loc.prior.slot_memory, s).track_id \notin DOMAIN selected_tracks


(***************************************************************************)
(* Two tracks and one best slot, main.py 283-324.                          *)
(***************************************************************************)
\* the slots of the pass's snapshot that no track has taken
StillUnbound ==
    {s \in DOMAIN loc.inactive_slots :
        MemHas(slot_memory, s) /\ MemGet(slot_memory, s).track_id = NoId}

\* C23: _auto_reassign rebinds to every unbound live track the best slot
\* among those unbound at that moment: when the pass is over, no track is left
\* unbound while a slot acceptable for it is still unbound.
C23_EveryTrackServed ==
    pc = "prune" =>
       \A k \in UnboundAtStart :
          loc.tracked[k].id \notin DOMAIN selected_tracks
          => \A s \in StillUnbound :
                ~ScoreNonNeg(RecallScore(loc.tracked[k],
                                         loc.descriptors[loc.tracked[k].id],
                                         loc.inactive_slots[s]))


(***************************************************************************)
(* The identity counter, tracking.py 60-72 and 140-141.                    *)
(***************************************************************************)
\* C24: an empty live set implies that the counter is 1, the first track
\* registered into an empty live set gets the identity 1, and the counter is
\* greater than every live identity.
C24_CounterReset ==
    /\ [](tracks = << >> => next_id = 1)
    /\ [](\A t \in DOMAIN tracks : t < next_id)
    /\ [][ (tracks = << >> /\ upd'.registered # <<>>) => upd'.registered[1] = 1 ]_vars

\* the call that expired the last live track has left the counter at 1, after
\* identities above 1 had been handed out
C24_Witness ==
    /\ tracks = << >>
    /\ next_id = 1
    /\ \E t \in upd.expired : t > 1


(***************************************************************************)
(* Bindings and the live set, main.py 146-159, 173-208 and 382-447.        *)
(***************************************************************************)
\* C25: at the end of every completed cycle, and after every toggle applied
\* between cycles, the track of every bound slot is in the tracker's live set.
C25_NoStaleBinding ==
    [][ (Publish \/ \E tap \in Taps : SelectTarget(tap))
        => \A s \in BoundSlots(slot_memory') :
              MemGet(slot_memory', s).track_id \in DOMAIN tracks' ]_vars


(***************************************************************************)
(* Lock discipline, main.py 79-81 and every with statement.                *)
(***************************************************************************)
Waiting(t) ==
    /\ lk.todo[t] # <<>>
    /\ Head(lk.todo[t])[1] = "acquire"
    /\ lk.held[Head(lk.todo[t])[2]] # Free

\* C26: no thread acquires a lock while it holds one (another or the same),
\* so no thread ever holds two; a thread at the end of its path, where it
\* awaits or returns, holds none; and a thread that waits for a lock waits for
\* another thread whose next operation is the release of a lock, so no set of
\* threads waits in a circle.
C26_LockDiscipline ==
    \A t \in Threads :
       /\ Cardinality(HeldBy(t)) <= 1
       /\ (lk.todo[t] # <<>> /\ Head(lk.todo[t])[1] = "acquire") => HeldBy(t) = {}
       /\ (lk.todo[t] # <<>> /\ Head(lk.todo[t])[1] = "release")
             => HeldBy(t) = {Head(lk.todo[t])[2]}
       /\ lk.todo[t] = <<>> => HeldBy(t) = {}
       /\ Waiting(t) =>
             LET owner == lk.held[Head(lk.todo[t])[2]]
             IN /\ owner # t
                /\ lk.todo[owner] # <<>>
                /\ Head(lk.todo[owner])[1] = "release"

\* the generator holds targets_lock, one request waits for it and the other
\* holds detections_lock
C26_Witness ==
    /\ lk.held["targets_lock"] = "generator"
    /\ Waiting("request1")
    /\ lk.held["detections_lock"] = "request2"


(***************************************************************************)
(* Unbinding on expiry, tracking.py 135-143 and main.py 146-159, 382-388.  *)
(***************************************************************************)
\* the slots bound, when the cycle began, to a track at its last tolerated
\* miss that this cycle's update did not match either
ExpiringSlots ==
    {s \in MemSlots(loc.prior.slot_memory) :
        LET t == MemGet(loc.prior.slot_memory, s).track_id
        IN /\ t # NoId
           /\ t \in DOMAIN loc.prior.tracks
           /\ loc.prior.tracks[t].lost = MaxLost
           /\ t \notin DOMAIN tracks}

\* C27: a slot is bound to a track that is not matched again: the cycle in
\* which the track goes unmatched for the (max_lost + 1)-th time ends with
\* the track expired and the slot unbound, still in the registry with the box
\* and the descriptor it remembered, and no cycle removes a slot.
C27_UnboundOnExpiry ==
    [][ (pc # "idle" /\ pc' = "idle")
        => /\ \A s \in ExpiringSlots :
                 /\ MemHas(slot_memory', s)
                 /\ MemGet(slot_memory', s).track_id = NoId
                 /\ MemGet(loc.prior.slot_memory, s).track_id \notin DOMAIN selected_tracks'
                 /\ MemGet(slot_memory', s).bbox = MemGet(loc.prior.slot_memory, s).bbox
                 /\ MemGet(slot_memory', s).descriptor
                       = MemGet(loc.prior.slot_memory, s).descriptor
           /\ MemSlots(loc.prior.slot_memory) \subseteq MemSlots(slot_memory') ]_vars

====
